---- MODULE Spec2Model ----
(***************************************************************************)
(* Framer and deframer for VHF FreeDV mode 'A' (freedv_vhf_framing.c).     *)
(*                                                                         *)
(* The model keeps the C indices: a frame and the deframer's bit buffer    *)
(* are functions on 0..95, the packed byte arrays are tuples whose C index *)
(* k is the tuple index k+1.  One action stands for one whole call of an   *)
(* API function.  A pointer argument that is NULL is the empty tuple.      *)
(***************************************************************************)
EXTENDS Integers, Sequences, FiniteSets, TLC

(* ------------------------------------------------------------------ *)
(* Constants of the source                                             *)
(* ------------------------------------------------------------------ *)

\* The frame type of freedv_vhf_framing.h; only its being one value matters
FREEDV_VHF_FRAME_A == 1
\* a frame type the framer does not know (any value other than FRAME_A)
FRAME_OTHER == FREEDV_VHF_FRAME_A + 1

ST_NOSYNC == 0
ST_SYNC == 1

NULL == << >>

\* The UW of the VHF type A frame
A_uw == << 0,1,1,0,0,1,1,1,
           1,0,1,0,1,1,0,1 >>

\* Blank VHF type A frame
A_blank == << 1,0,1,0,0,1,1,1,
              1,0,1,0,0,1,1,1,
              0,0,0,0,0,0,0,0,
              0,0,0,0,0,0,0,0,
              0,0,0,0,0,0,0,0,
              0,1,1,0,0,1,1,1,
              1,0,1,0,1,1,0,1,
              0,0,0,0,0,0,0,0,
              0,0,0,0,0,0,0,0,
              0,0,0,0,0,0,0,0,
              0,0,0,0,0,0,1,0,
              0,1,1,1,0,0,1,0 >>

\* deframer->frame_size as set by fvhff_create_deframer, and the literal 96
\* of fvhff_frame_bits
FrameSize == 96

\* uw_len of fvhff_match_uw
UwLen == 16

\* a slip in the offset of the UW
UwOffset_OffByOne == 40 + 1

\* uw_offset of fvhff_match_uw
UwOffset == 40

\* uw_sync_tol of fvhff_deframe_bits
UwSyncTol == 1

\* slips in the first-frame tolerance: the sync tolerance used for it, and a
\* tolerance of 3
UwFirstTol_AsSync == UwSyncTol
UwFirstTol_Three == UwSyncTol + 2

\* uw_first_tol of fvhff_deframe_bits
UwFirstTol == 2

\* a slip in the miss tolerance: the lock goes at the second miss
MissTol_OffByOne == UwFirstTol - 1

\* miss_tol of fvhff_deframe_bits
MissTol == 2

Idx == 0 .. (FrameSize - 1)

(* ------------------------------------------------------------------ *)
(* Bit packing                                                         *)
(* ------------------------------------------------------------------ *)

\* a slip in the shift: the bits of a byte are taken LSB first
UNPACK_BIT_LSBFIRST(bytes, bitidx) ==
    (bytes[(bitidx \div 8) + 1] \div (2 ^ (bitidx % 8))) % 2

\* ((bytes)[(bitidx)>>3]>>(7-((bitidx)&0x7)))&0x1
UNPACK_BIT_MSBFIRST(bytes, bitidx) ==
    (bytes[(bitidx \div 8) + 1] \div (2 ^ (7 - (bitidx % 8)))) % 2

\* out[ibit>>3] |= (bit&0x1)<<(7-(ibit&0x7)) for ibit in 0..nbits-1, on a
\* cleared array of nbytes bytes; read[ibit] is the buffer element read for ibit
PackMsbFirst(read, nbits, nbytes) ==
    [ b \in 1 .. nbytes |->
        LET B(k) == IF 8 * (b - 1) + k < nbits
                    THEN (read[8 * (b - 1) + k] % 2) * (2 ^ (7 - k))
                    ELSE 0
        IN  B(0) + B(1) + B(2) + B(3) + B(4) + B(5) + B(6) + B(7) ]

(* ------------------------------------------------------------------ *)
(* fvhff_frame_bits                                                    *)
(* ------------------------------------------------------------------ *)

\* Fill out frame with blank frame prototype
FillBlank == [ i \in Idx |-> A_blank[i + 1] ]

\* Fill in varicode bits, if present
FillVc(bits, vc_in) ==
    IF vc_in # NULL
    THEN [ bits EXCEPT ![90] = vc_in[1], ![91] = vc_in[2] ]
    ELSE bits

\* Fill in protocol bits, if present: bits 4..15, then bits 84..91
FillProto(bits, proto_in) ==
    IF proto_in # NULL
    THEN [ i \in Idx |->
             IF i >= 4 /\ i < 16
             THEN UNPACK_BIT_MSBFIRST(proto_in, i - 4)
             ELSE IF i >= 84 /\ i < 92
             THEN UNPACK_BIT_MSBFIRST(proto_in, 12 + (i - 84))
             ELSE bits[i] ]
    ELSE bits

\* a slip in the second loop: it starts inside the UW
FillCodec_From55(bits, codec2_in) ==
    [ i \in Idx |->
        IF i >= 16 /\ i < 40
        THEN UNPACK_BIT_MSBFIRST(codec2_in, i - 16)
        ELSE IF i >= 55 /\ i < 83
        THEN UNPACK_BIT_MSBFIRST(codec2_in, 24 + (i - 55))
        ELSE bits[i] ]

\* Fill in codec2 bits, present or not: bits 16..39, then bits 56..83
FillCodec(bits, codec2_in) ==
    [ i \in Idx |->
        IF i >= 16 /\ i < 40
        THEN UNPACK_BIT_MSBFIRST(codec2_in, i - 16)
        ELSE IF i >= 56 /\ i < 84
        THEN UNPACK_BIT_MSBFIRST(codec2_in, 24 + (i - 56))
        ELSE bits[i] ]

\* a slip in the order: the varicode bits are filled in after the protocol bits
fvhff_frame_bits_VcLast(frame_type, bits_out, codec2_in, proto_in, vc_in) ==
    IF frame_type = FREEDV_VHF_FRAME_A
    THEN FillCodec(FillVc(FillProto(FillBlank, proto_in), vc_in), codec2_in)
    ELSE bits_out

\* What the call hands back to its caller: the function is void
fvhff_frame_bits_returns(frame_type) == "nothing"

\* a slip: an unknown frame type gets the blank frame
fvhff_frame_bits_BlankForUnknown(frame_type, bits_out, codec2_in, proto_in, vc_in) ==
    IF frame_type = FREEDV_VHF_FRAME_A
    THEN FillCodec(FillProto(FillVc(FillBlank, vc_in), proto_in), codec2_in)
    ELSE FillBlank

\* The caller's bits_out after the call.
fvhff_frame_bits(frame_type, bits_out, codec2_in, proto_in, vc_in) ==
    IF frame_type = FREEDV_VHF_FRAME_A
    THEN FillCodec(FillProto(FillVc(FillBlank, vc_in), proto_in), codec2_in)
    ELSE bits_out

(* ------------------------------------------------------------------ *)
(* fvhff_match_uw and fvhff_extract_frame                              *)
(* ------------------------------------------------------------------ *)

\* The buffer index the walks of fvhff_match_uw and fvhff_extract_frame are
\* at after k increments from bitptr+offset: "if(i >= frame_size) i -=
\* frame_size" at the start, "if(i >= frame_size) i = 0" after each increment.
RingIndex(bitptr, offset, k, frame_size) ==
    LET start == IF bitptr + offset >= frame_size
                 THEN bitptr + offset - frame_size
                 ELSE bitptr + offset
    IN  IF start + k >= frame_size THEN start + k - frame_size ELSE start + k

\* diff of fvhff_match_uw: the number of UW positions where the buffer differs
UwDiff(bits, bitptr, frame_size) ==
    Cardinality({ iuw \in 0 .. (UwLen - 1) :
                    bits[RingIndex(bitptr, UwOffset, iuw, frame_size)] # A_uw[iuw + 1] })

\* a slip in the comparison: diff < tol
fvhff_match_uw_Strict(bits, ftype, bitptr, frame_size, tol) ==
    IF ftype = FREEDV_VHF_FRAME_A
    THEN IF UwDiff(bits, bitptr, frame_size) < tol THEN 1 ELSE 0
    ELSE 0

\* See if the UW is where it should be, to within a tolerance (1 or 0)
fvhff_match_uw(bits, ftype, bitptr, frame_size, tol) ==
    IF ftype = FREEDV_VHF_FRAME_A
    THEN IF UwDiff(bits, bitptr, frame_size) <= tol THEN 1 ELSE 0
    ELSE 0

\* The index of the second varicode read: "iframe++" with no wrap test
VcSecondIndex(bitptr, frame_size) ==
    (IF bitptr + 90 >= frame_size THEN bitptr + 90 - frame_size ELSE bitptr + 90) + 1

\* The caller's three output arrays after fvhff_extract_frame.  out is
\* [codec2_out, proto_out, vc_out], NULL for a pointer that was not passed;
\* past_end is the byte that follows the 96-byte buffer on the heap.
fvhff_extract_frame(bits, ftype, bitptr, frame_size, past_end, out) ==
    IF ftype = FREEDV_VHF_FRAME_A
    THEN LET CodecBit == [ ibit \in 0 .. 51 |->
                 IF ibit < 24
                 THEN bits[RingIndex(bitptr, 16, ibit, frame_size)]
                 ELSE bits[RingIndex(bitptr, 56, ibit - 24, frame_size)] ]
             ProtoBit == [ ibit \in 0 .. 19 |->
                 IF ibit < 12
                 THEN bits[RingIndex(bitptr, 4, ibit, frame_size)]
                 ELSE bits[RingIndex(bitptr, 84, ibit - 12, frame_size)] ]
             second == VcSecondIndex(bitptr, frame_size)
         IN  [ codec2_out |-> PackMsbFirst(CodecBit, 52, 7),
               vc_out     |-> IF out.vc_out # NULL
                              THEN << bits[RingIndex(bitptr, 90, 0, frame_size)],
                                      IF second >= frame_size
                                      THEN past_end ELSE bits[second] >>
                              ELSE out.vc_out,
               proto_out  |-> IF out.proto_out # NULL
                              THEN PackMsbFirst(ProtoBit, 20, 3)
                              ELSE out.proto_out ]
    ELSE out

\* fvhff_extract_frame reads bits[frame_size] when called with this cursor
\* and a vc_out destination
ReadsPastEnd(bitptr, frame_size, out) ==
    out.vc_out # NULL /\ VcSecondIndex(bitptr, frame_size) >= frame_size

(* ------------------------------------------------------------------ *)
(* fvhff_deframe_bits                                                  *)
(* ------------------------------------------------------------------ *)

\* s, in the operators below, holds the deframer's buffer and cursor, the
\* locals state, last_uw, miss_cnt, extracted_frame, the caller's output
\* arrays, and the passes of the loop at which something happened: ev.check
\* (last_uw reached frame_size), ev.match (the call of fvhff_match_uw made in
\* the pass returned 1), ev.lock (state became ST_SYNC), ev.drop (state became
\* ST_NOSYNC), ev.extract (fvhff_extract_frame was called), ev.cursor (bitptr
\* at each extraction); and tr, the buffer, cursor and locals as they were
\* when the loop was entered and after each of its passes.

\* a slip: a test that finds the UW does not clear miss_cnt
sync_check_NoClear(s, i, ftype, frame_size, past_end) ==
    LET m    == fvhff_match_uw(s.bits, ftype, s.bitptr, frame_size, UwSyncTol)
        miss == IF m = 0 THEN s.miss_cnt + 1 ELSE s.miss_cnt
        st   == IF miss > MissTol THEN ST_NOSYNC ELSE s.state
    IN  [ s EXCEPT !.last_uw = 0, !.miss_cnt = miss, !.state = st,
                   !.extracted_frame = 1,
                   !.out = fvhff_extract_frame(s.bits, ftype, s.bitptr, frame_size,
                                               past_end, s.out),
                   !.oob = @ \/ ReadsPastEnd(s.bitptr, frame_size, s.out),
                   !.ev.check = @ \cup {i},
                   !.ev.match = IF m = 1 THEN @ \cup {i} ELSE @,
                   !.ev.drop = IF st = ST_NOSYNC THEN @ \cup {i} ELSE @,
                   !.ev.extract = @ \cup {i},
                   !.ev.cursor = @ \cup {s.bitptr} ]

\* "UW should be here. We're sunk, so deframe anyway": last_uw = 0, test the
\* UW, count or clear the misses, leave sync above the miss tolerance, extract
sync_check(s, i, ftype, frame_size, past_end) ==
    LET m    == fvhff_match_uw(s.bits, ftype, s.bitptr, frame_size, UwSyncTol)
        miss == IF m = 0 THEN s.miss_cnt + 1 ELSE 0
        st   == IF miss > MissTol THEN ST_NOSYNC ELSE s.state
    IN  [ s EXCEPT !.last_uw = 0, !.miss_cnt = miss, !.state = st,
                   !.extracted_frame = 1,
                   !.out = fvhff_extract_frame(s.bits, ftype, s.bitptr, frame_size,
                                               past_end, s.out),
                   !.oob = @ \/ ReadsPastEnd(s.bitptr, frame_size, s.out),
                   !.ev.check = @ \cup {i},
                   !.ev.match = IF m = 1 THEN @ \cup {i} ELSE @,
                   !.ev.drop = IF st = ST_NOSYNC THEN @ \cup {i} ELSE @,
                   !.ev.extract = @ \cup {i},
                   !.ev.cursor = @ \cup {s.bitptr} ]

\* a slip: last_uw is not set back to 0 at the check
sync_pass_NoRestart(s, i, ftype, frame_size, past_end) ==
    IF s.last_uw + 1 = frame_size
    THEN [ sync_check(s, i, ftype, frame_size, past_end) EXCEPT !.last_uw = s.last_uw + 1 ]
    ELSE [ s EXCEPT !.last_uw = s.last_uw + 1 ]

\* The state == ST_SYNC branch of the loop, taken after the bit is stored:
\* last_uw++; if(last_uw == frame_size) { ... }
sync_pass(s, i, ftype, frame_size, past_end) ==
    IF s.last_uw + 1 = frame_size
    THEN sync_check(s, i, ftype, frame_size, past_end)
    ELSE [ s EXCEPT !.last_uw = s.last_uw + 1 ]

\* a slip: miss_cnt is not cleared on a match
nosync_lock_KeepMiss(s, i, ftype, frame_size, past_end) ==
    [ s EXCEPT !.state = ST_SYNC, !.last_uw = 0,
               !.extracted_frame = 1,
               !.out = fvhff_extract_frame(s.bits, ftype, s.bitptr, frame_size,
                                           past_end, s.out),
               !.oob = @ \/ ReadsPastEnd(s.bitptr, frame_size, s.out),
               !.ev.match = @ \cup {i},
               !.ev.lock = @ \cup {i},
               !.ev.extract = @ \cup {i},
               !.ev.cursor = @ \cup {s.bitptr} ]

\* "It's a sync!": go to ST_SYNC, clear the counters and extract
nosync_lock(s, i, ftype, frame_size, past_end) ==
    [ s EXCEPT !.state = ST_SYNC, !.last_uw = 0, !.miss_cnt = 0,
               !.extracted_frame = 1,
               !.out = fvhff_extract_frame(s.bits, ftype, s.bitptr, frame_size,
                                           past_end, s.out),
               !.oob = @ \/ ReadsPastEnd(s.bitptr, frame_size, s.out),
               !.ev.match = @ \cup {i},
               !.ev.lock = @ \cup {i},
               !.ev.extract = @ \cup {i},
               !.ev.cursor = @ \cup {s.bitptr} ]

\* a slip: state is not set to ST_SYNC on a match
nosync_pass_StayNosync(s, i, ftype, frame_size, past_end) ==
    IF fvhff_match_uw(s.bits, ftype, s.bitptr, frame_size, UwFirstTol) = 1
    THEN [ nosync_lock(s, i, ftype, frame_size, past_end) EXCEPT !.state = ST_NOSYNC ]
    ELSE s

\* The else branch of the loop (not yet sunk), taken after the bit is stored:
\* look for the UW with the first-frame tolerance
nosync_pass(s, i, ftype, frame_size, past_end) ==
    IF fvhff_match_uw(s.bits, ftype, s.bitptr, frame_size, UwFirstTol) = 1
    THEN nosync_lock(s, i, ftype, frame_size, past_end)
    ELSE s

\* a slip in the wrap test: bitptr > frame_size
put_bit_LateWrap(s, bit, frame_size) ==
    [ s EXCEPT !.bits = [ @ EXCEPT ![s.bitptr] = bit ],
               !.bitptr = IF s.bitptr + 1 > frame_size THEN 0 ELSE s.bitptr + 1 ]

\* Put a bit in the buffer: bits[bitptr] = bits_in[i]; bitptr++ with wrap
put_bit(s, bit, frame_size) ==
    [ s EXCEPT !.bits = [ @ EXCEPT ![s.bitptr] = bit ],
               !.bitptr = IF s.bitptr + 1 >= frame_size THEN 0 ELSE s.bitptr + 1 ]

\* The buffer, the cursor and the locals at one point of the loop
Snapshot(s) ==
    [ bits |-> s.bits, bitptr |-> s.bitptr, state |-> s.state,
      last_uw |-> s.last_uw, miss_cnt |-> s.miss_cnt ]

\* s with its values at the end of a pass added to s.tr
EndOfPass(s) == [ s EXCEPT !.tr = Append(@, Snapshot(s)) ]

\* One pass of the for loop of fvhff_deframe_bits, the i-th (from 0)
deframe_bit(s, i, bit, ftype, frame_size, past_end) ==
    IF s.state = ST_SYNC
    THEN EndOfPass(sync_pass(put_bit(s, bit, frame_size), i, ftype, frame_size, past_end))
    ELSE EndOfPass(nosync_pass(put_bit(s, bit, frame_size), i, ftype, frame_size, past_end))

NoEvents == [ check |-> {}, match |-> {}, lock |-> {}, drop |-> {}, extract |-> {},
              cursor |-> {} ]

\* for(i=lo; i<hi; i++) of fvhff_deframe_bits, the passes taken in order
\* (the range is halved, and the first half evaluated before the second is
\* entered, only to keep the evaluation shallow; bitptr < frame_size always)
RECURSIVE deframe_loop(_, _, _, _, _, _, _)
deframe_loop(s, bits_in, lo, hi, ftype, frame_size, past_end) ==
    IF hi <= lo
    THEN s
    ELSE IF hi = lo + 1
    THEN deframe_bit(s, lo, bits_in[lo], ftype, frame_size, past_end)
    ELSE LET mid == (lo + hi) \div 2
             s1  == deframe_loop(s, bits_in, lo, mid, ftype, frame_size, past_end)
         IN  IF s1.bitptr < frame_size
             THEN deframe_loop(s1, bits_in, mid, hi, ftype, frame_size, past_end)
             ELSE s1

\* The whole call: d is the deframer struct, out the caller's output arrays.
\* The result holds the struct fields written back, the return value
\* (extracted_frame) and the output arrays.
fvhff_deframe_bits(d, out, bits_in, past_end) ==
    IF d.ftype = FREEDV_VHF_FRAME_A
    THEN deframe_loop([ bits |-> d.bits, bitptr |-> d.bitptr, state |-> d.state,
                        last_uw |-> d.last_uw, miss_cnt |-> d.miss_cnt,
                        extracted_frame |-> 0, out |-> out, oob |-> FALSE,
                        ev |-> NoEvents, tr |-> << Snapshot(d) >> ],
                      bits_in, 0, d.frame_size, d.ftype, d.frame_size, past_end)
    ELSE [ bits |-> d.bits, bitptr |-> d.bitptr, state |-> d.state,
           last_uw |-> d.last_uw, miss_cnt |-> d.miss_cnt,
           extracted_frame |-> 0, out |-> out, oob |-> FALSE, ev |-> NoEvents,
           tr |-> << Snapshot(d) >> ]

(* ------------------------------------------------------------------ *)
(* fvhff_create_deframer                                               *)
(* ------------------------------------------------------------------ *)

\* No deframer: the struct behind a NULL pointer (nothing can be read there)
NoDeframer ==
    [ bits |-> [ i \in Idx |-> 0 ], ftype |-> 0, state |-> ST_NOSYNC, bitptr |-> 0,
      last_uw |-> 0, miss_cnt |-> 0, frame_size |-> 0 ]

\* a slip: the frame type is not tested
fvhff_create_deframer_AnyType(frame_type, malloc_def, malloc_bits, fresh) ==
    IF ~malloc_def \/ ~malloc_bits
    THEN [ ptr |-> "NULL", def |-> NoDeframer ]
    ELSE [ ptr |-> "deframer",
           def |-> [ bits |-> fresh, ftype |-> frame_type, state |-> ST_NOSYNC,
                     bitptr |-> 0, last_uw |-> 0, miss_cnt |-> 0,
                     frame_size |-> FrameSize ] ]

\* The pointer returned and the struct it points to.  malloc_def and
\* malloc_bits tell whether the two allocations succeed; fresh is the content
\* of the bit buffer as malloc hands it out (it is never cleared).
fvhff_create_deframer(frame_type, malloc_def, malloc_bits, fresh) ==
    IF frame_type = FREEDV_VHF_FRAME_A
    THEN IF ~malloc_def
         THEN [ ptr |-> "NULL", def |-> NoDeframer ]
         ELSE IF ~malloc_bits
         THEN [ ptr |-> "NULL", def |-> NoDeframer ]
         ELSE [ ptr |-> "deframer",
                def |-> [ bits |-> fresh, ftype |-> frame_type, state |-> ST_NOSYNC,
                          bitptr |-> 0, last_uw |-> 0, miss_cnt |-> 0,
                          frame_size |-> FrameSize ] ]
    ELSE [ ptr |-> "NULL", def |-> NoDeframer ]

\* int fvhff_synchronized(def)
fvhff_synchronized(d) == IF d.state = ST_SYNC THEN 1 ELSE 0

(* ------------------------------------------------------------------ *)
(* The inputs the model draws from                                     *)
(* ------------------------------------------------------------------ *)

Zeros == [ i \in Idx |-> 0 ]

\* all zeros except the UW at buffer index k .. k+15
UwAt(k) == [ i \in Idx |-> IF i >= k /\ i < k + UwLen THEN A_uw[i - k + 1] ELSE 0 ]

\* What malloc may hand out as the bit buffer: cleared memory, or stale bytes
\* that hold the UW pattern where the search looks once 5 bits are in
FreshBuffers == { Zeros, UwAt(45) }

\* Values of the heap byte that follows the bit buffer
PastEndValues == { 0, 1, 255 }

\* Arguments of fvhff_frame_bits: a packed 52-bit payload (7 bytes, the low
\* nibble of the last byte unused), a packed 20-bit protocol field (3 bytes)
\* or NULL, two varicode bits or NULL.  The protocol field of the third one
\* starts with the last 12 bits of the UW.
TxInputs ==
    { [ codec2_in |-> << 165, 90, 165, 90, 165, 90, 175 >>,
        proto_in  |-> << 18, 52, 95 >>, vc_in |-> << 1, 0 >> ],
      [ codec2_in |-> << 165, 90, 165, 90, 165, 90, 175 >>,
        proto_in  |-> NULL, vc_in |-> << 0, 1 >> ],
      [ codec2_in |-> << 0, 0, 0, 0, 0, 0, 0 >>,
        proto_in  |-> << 122, 213, 160 >>, vc_in |-> NULL ],
      [ codec2_in |-> << 255, 255, 255, 255, 255, 255, 240 >>,
        proto_in  |-> NULL, vc_in |-> NULL ] }

FrameTypes == { FREEDV_VHF_FRAME_A, FRAME_OTHER }

\* UW positions the channel flips: none, 1, 2, 3 and all 16
FlipSets == { {}, {7}, {0, 15}, {2, 8, 13}, 0 .. (UwLen - 1) }

\* frame with the UW bits in flips inverted
FlipUw(frame, flips) ==
    [ i \in Idx |-> IF i >= UwOffset /\ i < UwOffset + UwLen /\ (i - UwOffset) \in flips
                    THEN 1 - frame[i] ELSE frame[i] ]

AllOut == [ proto |-> TRUE, vc |-> TRUE ]
CodecOnly == [ proto |-> FALSE, vc |-> FALSE ]

\* What a call is fed and which output arrays it is given: the assembled
\* frame (UW bits flipped or not), or a frame that is all zeros except the
\* UW at offset 40; all three output arrays, or codec2_out alone
Feeds ==
    [ src : {"tx"}, flips : FlipSets, want : {AllOut}, d : {0} ]
      \cup [ src : {"tx"}, flips : {{}}, want : {CodecOnly}, d : {0} ]
      \cup [ src : {"zeros_uw"}, flips : {{}}, want : {AllOut}, d : {0} ]

\* The number of bits by which a stream of frames is off the calls' batches
Shifts == 0 .. (FrameSize - 1)

\* A stream of copies of the assembled frame that starts d bits into the
\* first batch, after d zero bits: the first batch ("head") and every later
\* one ("stream"), in which a copy of the frame ends with bit d-1
StreamFeeds == [ src : {"head", "stream"}, flips : {{}}, want : {AllOut}, d : Shifts ]

BitsIn(f, frame) ==
    CASE f.src = "tx"       -> FlipUw(frame, f.flips)
      [] f.src = "zeros_uw" -> UwAt(UwOffset)
      [] f.src = "head"     -> [ i \in Idx |-> IF i < f.d THEN 0 ELSE frame[i - f.d] ]
      [] f.src = "stream"   -> [ i \in Idx |-> frame[(i + FrameSize - f.d) % FrameSize] ]

(* ------------------------------------------------------------------ *)
(* State                                                               *)
(* ------------------------------------------------------------------ *)

VARIABLES
    ptr,         \* the caller's deframer pointer: "NULL" or "deframer"
    def,         \* struct freedv_vhf_deframer behind ptr
    bits_out,    \* the caller's frame buffer, written by fvhff_frame_bits
    tx,          \* the arguments the frame in bits_out was assembled from
    codec2_out,  \* the caller's output arrays of fvhff_deframe_bits
    proto_out,
    vc_out,
    ret,         \* return value of the last fvhff_deframe_bits call
    op,          \* the last call made
    args,        \* its arguments
    pre,         \* what the last fvhff_deframe_bits call started from
    ev,          \* the passes of its loop at which something happened
    oob,         \* whether it read bits[96]
    run,         \* the calls in a row fed an aligned frame with all UW bits
                 \* flipped, and what the first of them started from
    trace,       \* the buffer, cursor and locals when its loop was entered and
                 \* after each pass
    chk          \* the UW tests made while synchronized that found more than
                 \* 1 bit error, in a row up to now and up to the last call's
                 \* test

vars == << ptr, def, bits_out, tx, codec2_out, proto_out, vc_out, ret, op, args,
           pre, ev, oob, run, trace, chk >>

NoArgs == [ frame_type |-> 0, codec2_in |-> NULL, proto_in |-> NULL, vc_in |-> NULL,
            malloc_def |-> FALSE, malloc_bits |-> FALSE,
            feed |-> [ src |-> "none", flips |-> {}, want |-> CodecOnly, d |-> 0 ],
            bits_in |-> Zeros ]

NoTx == [ valid |-> FALSE, codec2_in |-> NULL, proto_in |-> NULL, vc_in |-> NULL ]

NoOut == [ codec2_out |-> << 0, 0, 0, 0, 0, 0, 0 >>, proto_out |-> << 0, 0, 0 >>,
           vc_out |-> << 0, 0 >> ]

\* fresh: the call was the first on its deframer; bits: the buffer as the
\* call found it; out: the caller's output arrays as the call found them,
\* recorded for the calls that return 0
NoPre == [ state |-> ST_NOSYNC, last_uw |-> 0, miss_cnt |-> 0, bitptr |-> 0,
           fresh |-> FALSE, bits |-> Zeros, out |-> NoOut ]

\* the cap of the count of calls in a row kept in run
MaxRun == 4

NoRun == [ len |-> 0, state |-> ST_NOSYNC, last_uw |-> 0, miss_cnt |-> 0 ]

NoChk == [ fails |-> 0, at_check |-> 0 ]

Init ==
    /\ ptr = "NULL"
    /\ def = NoDeframer
    /\ bits_out = Zeros
    /\ tx = NoTx
    /\ codec2_out = << 0, 0, 0, 0, 0, 0, 0 >>
    /\ proto_out = << 0, 0, 0 >>
    /\ vc_out = << 0, 0 >>
    /\ ret = 0
    /\ op = "none"
    /\ args = NoArgs
    /\ pre = NoPre
    /\ ev = NoEvents
    /\ oob = FALSE
    /\ run = NoRun
    /\ trace = << >>
    /\ chk = NoChk

(* ------------------------------------------------------------------ *)
(* Actions: one per API call                                           *)
(* ------------------------------------------------------------------ *)

\* The frame on the air during a receive session is assembled before the
\* deframer is created.
FrameBits ==
    \E ft \in FrameTypes, t \in TxInputs :
        /\ ptr = "NULL"
        /\ bits_out' = fvhff_frame_bits(ft, bits_out, t.codec2_in, t.proto_in, t.vc_in)
        /\ tx' = IF ft = FREEDV_VHF_FRAME_A
                 THEN [ valid |-> TRUE, codec2_in |-> t.codec2_in,
                        proto_in |-> t.proto_in, vc_in |-> t.vc_in ]
                 ELSE tx
        /\ op' = "frame_bits"
        /\ args' = [ NoArgs EXCEPT !.frame_type = ft, !.codec2_in = t.codec2_in,
                                   !.proto_in = t.proto_in, !.vc_in = t.vc_in ]
        /\ UNCHANGED << ptr, def, codec2_out, proto_out, vc_out, ret, pre, ev, oob, run,
                        trace, chk >>

CreateDeframer ==
    \E ft \in FrameTypes, m1 \in BOOLEAN, m2 \in BOOLEAN, fresh \in FreshBuffers :
        /\ ptr = "NULL"
        /\ LET r == fvhff_create_deframer(ft, m1, m2, fresh)
           IN  /\ ptr' = r.ptr
               /\ def' = r.def
        /\ op' = "create_deframer"
        /\ args' = [ NoArgs EXCEPT !.frame_type = ft, !.malloc_def = m1,
                                   !.malloc_bits = m2 ]
        /\ UNCHANGED << bits_out, tx, codec2_out, proto_out, vc_out, ret, pre, ev, oob,
                        run, trace, chk >>

\* free(def->bits); free(def); the caller clears its output arrays
DestroyDeframer ==
    /\ ptr = "deframer"
    /\ ptr' = "NULL"
    /\ def' = NoDeframer
    /\ op' = "destroy_deframer"
    /\ args' = NoArgs
    /\ codec2_out' = << 0, 0, 0, 0, 0, 0, 0 >>
    /\ proto_out' = << 0, 0, 0 >>
    /\ vc_out' = << 0, 0 >>
    /\ ret' = 0
    /\ pre' = NoPre
    /\ ev' = NoEvents
    /\ oob' = FALSE
    /\ run' = NoRun
    /\ trace' = << >>
    /\ chk' = NoChk
    /\ UNCHANGED << bits_out, tx >>

AllFlipped(f) == f.src = "tx" /\ f.flips = 0 .. (UwLen - 1)

\* The outcomes of one call: one, unless the call reads the byte behind the
\* buffer, and then one for each value that byte may have
DeframeOutcomes(d, out, bits_in) ==
    UNION { IF r0.oob
            THEN { fvhff_deframe_bits(d, out, bits_in, past_end) :
                     past_end \in PastEndValues }
            ELSE { r0 } : r0 \in { fvhff_deframe_bits(d, out, bits_in, 0) } }

\* Number of UW positions in which the 16 buffer elements from 40 after the
\* cursor on, taken round the buffer, differ from the UW
UwErrorsAt(bits, cursor) ==
    Cardinality({ k \in 0 .. 15 : bits[(cursor + 40 + k) % 96] # A_uw[k + 1] })

\* chk after a call with result r: a test that finds more than 1 bit error
\* adds to the count, any other test and any lock clear it
ChkAfter(c, r) ==
    LET failed == \E i \in r.ev.check :
                      UwErrorsAt(r.tr[i + 2].bits, r.tr[i + 2].bitptr) > 1
        at     == IF r.ev.check = {} THEN 0
                  ELSE IF failed
                  THEN (IF c.fails < MaxRun THEN c.fails + 1 ELSE c.fails)
                  ELSE 0
    IN  [ at_check |-> at,
          fails    |-> IF r.ev.lock # {} THEN 0
                       ELSE IF r.ev.check = {} THEN c.fails ELSE at ]

\* One call of fvhff_deframe_bits: f tells what it is fed and which output
\* arrays it is given
DeframeCall(f) ==
    /\ ptr = "deframer"
    /\ \E bits_in \in { BitsIn(f, bits_out) } :
       \E r \in DeframeOutcomes(def,
                    [ codec2_out |-> codec2_out,
                      proto_out  |-> IF f.want.proto THEN proto_out ELSE NULL,
                      vc_out     |-> IF f.want.vc THEN vc_out ELSE NULL ],
                    bits_in) :
            /\ def' = [ def EXCEPT !.bits = r.bits, !.bitptr = r.bitptr,
                                   !.state = r.state, !.last_uw = r.last_uw,
                                   !.miss_cnt = r.miss_cnt ]
            /\ ret' = r.extracted_frame
            /\ codec2_out' = r.out.codec2_out
            /\ proto_out' = IF f.want.proto THEN r.out.proto_out ELSE proto_out
            /\ vc_out' = IF f.want.vc THEN r.out.vc_out ELSE vc_out
            /\ ev' = r.ev
            /\ oob' = r.oob
            /\ trace' = r.tr
            /\ chk' = ChkAfter(chk, r)
            /\ args' = [ NoArgs EXCEPT !.feed = f, !.bits_in = bits_in ]
            /\ pre' = [ state |-> def.state, last_uw |-> def.last_uw,
                        miss_cnt |-> def.miss_cnt, bitptr |-> def.bitptr,
                        fresh |-> (op = "create_deframer"),
                        bits |-> def.bits,
                        out |-> IF r.extracted_frame = 0
                                THEN [ codec2_out |-> codec2_out,
                                       proto_out |-> proto_out, vc_out |-> vc_out ]
                                ELSE NoOut ]
    /\ run' = IF ~AllFlipped(f) THEN NoRun
              ELSE IF run.len = 0
              THEN [ len |-> 1, state |-> def.state, last_uw |-> def.last_uw,
                     miss_cnt |-> def.miss_cnt ]
              ELSE [ run EXCEPT !.len = IF @ < MaxRun THEN @ + 1 ELSE @ ]
    /\ op' = "deframe_bits"
    /\ UNCHANGED << ptr, bits_out, tx >>

\* A call fed a batch that is aligned with the frame
DeframeBits ==
    \E f \in Feeds :
        /\ f.src = "tx" => tx.valid
        /\ DeframeCall(f)

\* A call fed the next 96 bits of a stream of copies of the assembled frame:
\* the first call on the deframer starts the stream, any later one goes on
\* with it
DeframeStream ==
    \E f \in StreamFeeds :
        /\ tx.valid
        /\ IF op = "create_deframer"
           THEN f.src = "head"
           ELSE op = "deframe_bits" /\ f.src = "stream" /\ args.feed.d = f.d
                  /\ args.feed.src \in {"head", "stream"}
        /\ DeframeCall(f)

Next ==
    \/ FrameBits
    \/ CreateDeframer
    \/ DestroyDeframer
    \/ DeframeBits

Spec == Init /\ [][Next]_vars

\* The same calls, the deframer fed a stream of frames at any alignment
NextAlign ==
    \/ FrameBits
    \/ CreateDeframer
    \/ DestroyDeframer
    \/ DeframeStream

SpecAlign == Init /\ [][NextAlign]_vars

(* ------------------------------------------------------------------ *)
(* Properties                                                          *)
(* ------------------------------------------------------------------ *)

Deframed == op = "deframe_bits"

Synchronized == fvhff_synchronized(def) = 1

Min(S) == CHOOSE x \in S : \A y \in S : x <= y

\* Number of UW positions in which the 16 bits at offset 40 of the 96 most
\* recent bits differ from the UW, once i+1 bits of batch new have gone into
\* a buffer that held old and whose cursor was 0
WindowDist(old, new, i) ==
    Cardinality({ k \in 0 .. 15 :
                    LET pos == (i + 1 + 40 + k) % 96
                    IN  (IF pos <= i THEN new[pos] ELSE old[pos]) # A_uw[k + 1] })

\* The passes of the last call, other than the final one, after which the
\* searched window was within 2 bits of the UW
EarlyMatches == { i \in 0 .. 94 : WindowDist(pre.bits, args.bits_in, i) <= 2 }

\* Number of UW positions in which bits 40..55 of a batch differ from the UW
UwErrors(batch) == Cardinality({ k \in 0 .. 15 : batch[40 + k] # A_uw[k + 1] })

\* Bit i of a packed array, the most significant bit of a byte first
Bit(bytes, i) == (bytes[(i \div 8) + 1] \div (2 ^ (7 - (i % 8)))) % 2

PayloadReturned ==
    \A i \in 0 .. 51 : Bit(codec2_out, i) = Bit(tx.codec2_in, i)

ProtocolReturned ==
    tx.proto_in # NULL => \A i \in 0 .. 19 : Bit(proto_out, i) = Bit(tx.proto_in, i)

\* The first call on a deframer, fed the assembled frame as it is and given
\* all three output arrays
RoundTripCase ==
    /\ Deframed
    /\ pre.fresh
    /\ args.feed.src = "tx"
    /\ args.feed.flips = {}
    /\ args.feed.want = AllOut

\* C1 as claimed: a frame assembled by fvhff_frame_bits and fed in one call to
\* a freshly created deframer is reported extracted, leaves the deframer
\* synchronized, and the payload and protocol bits returned are the ones
\* assembled.
C1_RoundTrip ==
    RoundTripCase =>
        /\ ret = 1
        /\ Synchronized
        /\ PayloadReturned
        /\ ProtocolReturned

\* C1 as amended: the call reports an extraction and leaves the deframer
\* synchronized; it locks at the first pass whose window is within 2 bits of
\* the UW, and returns the assembled payload and protocol bits when that is
\* the last pass, which it is unless an earlier window (bytes of the never
\* written buffer, then the frame's leading bits) matches.
C1_RoundTripUnlessEarlyLock ==
    RoundTripCase =>
        /\ ret = 1
        /\ Synchronized
        /\ ev.lock = IF EarlyMatches = {} THEN {95} ELSE { Min(EarlyMatches) }
        /\ ev.lock = {95} => PayloadReturned /\ ProtocolReturned

C1_Witness ==
    /\ RoundTripCase
    /\ tx.proto_in # NULL
    /\ tx.codec2_in[1] = 165
    /\ ev.lock = {95}
    /\ codec2_out[1] = 165
    /\ PayloadReturned
    /\ ProtocolReturned

\* The calls of the current run of frames with all 16 UW bits flipped began
\* with the deframer synchronized on a frame boundary
RunFromSync == Deframed /\ run.len > 0 /\ run.state = ST_SYNC /\ run.last_uw = 0

\* C2 as claimed: from a deframer synchronized on a frame boundary, the first
\* and the second frame in a row with all 16 UW bits flipped are extracted and
\* leave it synchronized, the third leaves it unsynchronized.
C2_Hysteresis ==
    RunFromSync =>
        /\ run.len \in {1, 2} => Synchronized /\ ret = 1
        /\ run.len = 3 => ~Synchronized

\* C2 as amended: the same, for a deframer whose miss count is 0 when the
\* run of corrupted frames begins.
C2_HysteresisFromNoMiss ==
    RunFromSync /\ run.miss_cnt = 0 =>
        /\ run.len \in {1, 2} => Synchronized /\ ret = 1 /\ def.miss_cnt = run.len
        /\ run.len = 3 => ~Synchronized /\ ret = 1

C2_Witness ==
    /\ RunFromSync
    /\ run.miss_cnt = 0
    /\ run.len = 3
    /\ ~Synchronized

\* The first call on a deframer, fed the assembled frame with n UW bits flipped
FirstFrameCase(n) ==
    /\ Deframed
    /\ pre.fresh
    /\ args.feed.src = "tx"
    /\ Cardinality(args.feed.flips) = n

\* C3 as claimed: a first frame with exactly 2 UW bits flipped synchronizes a
\* fresh deframer, the same frame with exactly 3 UW bits flipped does not.
C3_ToleranceBoundary ==
    /\ FirstFrameCase(2) => Synchronized
    /\ FirstFrameCase(3) => ~Synchronized

\* C3 as amended: with 2 UW bits flipped the call leaves the deframer
\* synchronized; with 3 flipped the frame is not accepted at its last bit, and
\* the deframer is left synchronized only if an earlier window of the batch
\* (bytes of the never written buffer, then the frame's leading bits) was
\* within 2 bits of the UW.
C3_BoundaryAtFrameEnd ==
    /\ FirstFrameCase(2) => Synchronized /\ ret = 1
    /\ FirstFrameCase(3) =>
         /\ 95 \notin ev.lock
         /\ Synchronized <=> EarlyMatches # {}

C3_Witness ==
    /\ FirstFrameCase(3)
    /\ ~Synchronized
    /\ ret = 0
    /\ UwErrors(def.bits) = 3

\* A call that starts unsynchronized and is fed the assembled frame as it is
ReacquireCase ==
    /\ Deframed
    /\ pre.state = ST_NOSYNC
    /\ args.feed.src = "tx"
    /\ args.feed.flips = {}

\* C4 as claimed: from unsynchronized, a correct frame locks the deframer at
\* its last bit (the first bit at which the UW is at offset 40 of the window)
\* and at no earlier bit.
C4_LockAtFrameEnd ==
    ReacquireCase => ev.lock = {95}

\* C4 as amended: from unsynchronized, a correct frame locks the deframer
\* once, at the first pass whose window is within 2 bits of the UW: the
\* frame's last bit when no earlier window (older buffer contents, then the
\* frame's leading bits) matches, that earlier pass otherwise.
C4_LockAtFirstMatch ==
    ReacquireCase =>
        /\ Synchronized
        /\ ret = 1
        /\ ev.lock = IF EarlyMatches = {} THEN {95} ELSE { Min(EarlyMatches) }

C4_Witness ==
    /\ ReacquireCase
    /\ ~pre.fresh
    /\ EarlyMatches = {}
    /\ ev.lock = {95}
    /\ Synchronized

\* The last pass at which the call locked or checked the UW
LastMark == CHOOSE i \in ev.check \cup ev.lock : \A j \in ev.check \cup ev.lock : j <= i

\* C5: a call extracts at the pass where the count of bits since the lock or
\* the last check reaches 96, and only there and at a lock, whether that
\* check matches, misses or drops the lock; the count restarts there; so a
\* call that starts synchronized returns 1.
C5_ExtractEvery96thBit ==
    Deframed =>
        /\ ev.extract = ev.check \cup ev.lock
        /\ ev.drop \subseteq ev.check
        /\ pre.state = ST_SYNC => ev.check = { 95 - pre.last_uw } /\ ret = 1
        /\ pre.state = ST_NOSYNC => ev.check = {}
        /\ Synchronized => def.last_uw = IF ev.check \cup ev.lock = {}
                                         THEN pre.last_uw ELSE 95 - LastMark

C5_Witness ==
    /\ Deframed
    /\ pre.state = ST_SYNC
    /\ pre.last_uw # 0
    /\ ev.drop # {}
    /\ ev.drop \subseteq ev.extract
    /\ ret = 1

\* C6 as claimed: a call of 96 bits extracts at most once.
C6_OneExtractionPerCall ==
    Deframed => Cardinality(ev.extract) <= 1

\* C6 as amended: a call of 96 bits makes at most one check and at most one
\* lock, so it extracts at most twice; it extracts twice when its check drops
\* the lock and a later bit of the same call locks again.
C6_AtMostCheckAndLock ==
    Deframed =>
        /\ Cardinality(ev.check) <= 1
        /\ Cardinality(ev.lock) <= 1
        /\ ev.extract = ev.check \cup ev.lock
        /\ Cardinality(ev.extract) = 2 =>
             /\ ev.drop = ev.check
             /\ \A c \in ev.check : \A l \in ev.lock : c < l

C6_Witness ==
    /\ Deframed
    /\ Cardinality(ev.extract) = 2
    /\ ev.drop # {}

Assembled == op = "frame_bits" /\ args.frame_type = FREEDV_VHF_FRAME_A

\* C7: with protocol and varicode bits both given, frame bits 90 and 91 are
\* protocol bits 18 and 19; with varicode bits alone they are the two
\* varicode bits.
C7_ProtocolWinsOverlap ==
    Assembled =>
        /\ args.proto_in # NULL =>
             /\ bits_out[90] = Bit(args.proto_in, 18)
             /\ bits_out[91] = Bit(args.proto_in, 19)
        /\ args.proto_in = NULL /\ args.vc_in # NULL =>
             /\ bits_out[90] = args.vc_in[1]
             /\ bits_out[91] = args.vc_in[2]

C7_Witness ==
    /\ Assembled
    /\ args.proto_in # NULL
    /\ args.vc_in # NULL
    /\ args.vc_in[1] # Bit(args.proto_in, 18)
    /\ bits_out[90] = Bit(args.proto_in, 18)
    /\ bits_out[91] = Bit(args.proto_in, 19)

\* C8: the assembled frame is the blank template at the padding bits 0-3 and
\* 92-95 and at the UW bits 40-55, which hold the UW; without protocol bits
\* also at bits 4-15 and 84-89; without protocol and varicode bits also at
\* bits 90-91.
C8_TemplateOutsideFields ==
    Assembled =>
        /\ \A i \in (0 .. 3) \cup (92 .. 95) \cup (40 .. 55) : bits_out[i] = A_blank[i + 1]
        /\ \A k \in 0 .. 15 : bits_out[40 + k] = A_uw[k + 1]
        /\ args.proto_in = NULL =>
             \A i \in (4 .. 15) \cup (84 .. 89) : bits_out[i] = A_blank[i + 1]
        /\ args.proto_in = NULL /\ args.vc_in = NULL =>
             \A i \in 90 .. 91 : bits_out[i] = A_blank[i + 1]

C8_Witness ==
    /\ Assembled
    /\ args.proto_in = NULL
    /\ args.vc_in = NULL
    /\ \E i \in 16 .. 39 : bits_out[i] # A_blank[i + 1]
    /\ \A i \in (0 .. 15) \cup (40 .. 55) \cup (84 .. 95) : bits_out[i] = A_blank[i + 1]

\* C9: a fresh deframer fed 96 bits whose bits 40-55 differ from the UW in at
\* most 2 positions (all zeros but the UW at 40, for one) returns 1 and is
\* synchronized after the call, whatever the other 80 bits are.
C9_FirstBatchWithUw ==
    Deframed /\ pre.fresh /\ UwErrors(args.bits_in) <= 2 =>
        /\ ret = 1
        /\ fvhff_synchronized(def) = 1

C9_Witness ==
    /\ Deframed
    /\ pre.fresh
    /\ args.feed.src = "zeros_uw"
    /\ args.bits_in = UwAt(40)
    /\ ret = 1
    /\ fvhff_synchronized(def) = 1

Created == op = "create_deframer"

\* C10 as claimed: creation with an unsupported frame type does not come back
\* as a null pointer, the result an allocation failure gives.
C10_ExplicitError ==
    Created /\ args.frame_type # FREEDV_VHF_FRAME_A => ptr # "NULL"

\* C10 as amended: creation with an unsupported frame type returns NULL, as a
\* failed allocation does, and creates no deframer; creation for type A with
\* both allocations successful yields a deframer in ST_NOSYNC with bitptr,
\* last_uw and miss_cnt 0.
C10_NullOrFreshDeframer ==
    Created =>
        /\ args.frame_type # FREEDV_VHF_FRAME_A => ptr = "NULL" /\ def = NoDeframer
        /\ ~(args.malloc_def /\ args.malloc_bits) => ptr = "NULL" /\ def = NoDeframer
        /\ args.frame_type = FREEDV_VHF_FRAME_A /\ args.malloc_def /\ args.malloc_bits =>
             /\ ptr = "deframer"
             /\ fvhff_synchronized(def) = 0
             /\ def.state = ST_NOSYNC
             /\ def.bitptr = 0
             /\ def.last_uw = 0
             /\ def.miss_cnt = 0
             /\ def.frame_size = 96
             /\ def.ftype = FREEDV_VHF_FRAME_A

C10_Witness ==
    /\ Created
    /\ args.frame_type = FRAME_OTHER
    /\ args.malloc_def
    /\ args.malloc_bits
    /\ ptr = "NULL"

\* C11 as claimed: assembling with an unsupported frame type is reported to
\* the caller as an error.
C11_ErrorReported ==
    op = "frame_bits" /\ args.frame_type # FREEDV_VHF_FRAME_A =>
        fvhff_frame_bits_returns(args.frame_type) = "error"

\* C11 as amended: assembling with an unsupported frame type hands nothing
\* back and leaves the caller's frame buffer as it was; assembling a type A
\* frame hands nothing back either and writes all 96 bits of the buffer.
C11_UnknownTypeIgnored ==
    [][ op' = "frame_bits" =>
          /\ fvhff_frame_bits_returns(args'.frame_type) = "nothing"
          /\ args'.frame_type # FREEDV_VHF_FRAME_A => bits_out' = bits_out /\ tx' = tx
          /\ args'.frame_type = FREEDV_VHF_FRAME_A =>
               /\ \A i \in 0 .. 95 : bits_out'[i] \in {0, 1}
               /\ \A k \in 0 .. 15 : bits_out'[40 + k] = A_uw[k + 1] ]_vars

C11_Witness ==
    /\ op = "frame_bits"
    /\ args.frame_type = FRAME_OTHER
    /\ tx.valid
    /\ args.codec2_in # tx.codec2_in
    /\ \A k \in 0 .. 15 : bits_out[40 + k] = A_uw[k + 1]
    /\ \A i \in 0 .. 23 : bits_out[16 + i] = Bit(tx.codec2_in, i)

\* C12 as claimed: a call never reads the bit buffer outside its 96 elements.
C12_ReadsInsideRing ==
    Deframed => ~oob /\ \A c \in ev.cursor : c + 91 # 96

\* The buffer, cursor and locals before and after pass i of the last call
Before(i) == trace[i + 1]
After(i) == trace[i + 2]

\* C13: at every bit processed while unsynchronized, once the bit is stored
\* and the cursor advanced, the deframer becomes synchronized exactly when the
\* 16 buffer elements at 40..55 after the cursor are within 2 bits of the UW;
\* then last_uw and miss_cnt are 0 and the bit extracts; otherwise it stays
\* unsynchronized, nothing is extracted and last_uw and miss_cnt are unchanged.
C13_UnsyncStep ==
    Deframed =>
        \A i \in 0 .. 95 :
            Before(i).state = ST_NOSYNC =>
                /\ After(i).bits = [ Before(i).bits EXCEPT ![Before(i).bitptr] = args.bits_in[i] ]
                /\ After(i).bitptr = (Before(i).bitptr + 1) % 96
                /\ IF UwErrorsAt(After(i).bits, After(i).bitptr) <= 2
                   THEN /\ After(i).state = ST_SYNC
                        /\ After(i).last_uw = 0
                        /\ After(i).miss_cnt = 0
                        /\ i \in ev.extract
                        /\ ret = 1
                   ELSE /\ After(i).state = ST_NOSYNC
                        /\ After(i).last_uw = Before(i).last_uw
                        /\ After(i).miss_cnt = Before(i).miss_cnt
                        /\ i \notin ev.extract

C13_Witness ==
    /\ Deframed
    /\ pre.state = ST_NOSYNC
    /\ pre.miss_cnt > 0
    /\ ev.lock = {95}
    /\ After(95).state = ST_SYNC
    /\ After(95).miss_cnt = 0
    /\ Before(95).state = ST_NOSYNC
    /\ Before(95).miss_cnt > 0

\* C14: the deframer goes from synchronized to unsynchronized only at a bit
\* where last_uw reaches 96 and only when the UW test there and the two tests
\* before it all found more than 1 bit error; a test that finds at most 1
\* error sets miss_cnt to 0; wherever the deframer is synchronized between
\* bits, miss_cnt is in 0..2.
C14_DropAfterThreeMisses ==
    Deframed =>
        /\ \A i \in 0 .. 95 :
             Before(i).state = ST_SYNC /\ After(i).state = ST_NOSYNC =>
                 /\ i \in ev.check
                 /\ Before(i).last_uw = 95
                 /\ chk.at_check >= 3
        /\ \A i \in ev.check :
             UwErrorsAt(After(i).bits, After(i).bitptr) <= 1 => After(i).miss_cnt = 0
        /\ \A n \in 1 .. 97 : trace[n].state = ST_SYNC => trace[n].miss_cnt \in 0 .. 2

C14_Witness ==
    /\ Deframed
    /\ ev.drop # {}
    /\ chk.at_check = 3
    /\ pre.state = ST_SYNC
    /\ pre.miss_cnt = 2

\* The first call on a deframer whose buffer malloc handed out as ring
FirstCallOn(ring) ==
    fvhff_deframe_bits(fvhff_create_deframer(FREEDV_VHF_FRAME_A, TRUE, TRUE, ring).def,
                       [ codec2_out |-> NoOut.codec2_out,
                         proto_out  |-> IF args.feed.want.proto THEN NoOut.proto_out ELSE NULL,
                         vc_out     |-> IF args.feed.want.vc THEN NoOut.vc_out ELSE NULL ],
                       args.bits_in, 0)

\* C15 as claimed: what the first call on a fresh deframer returns and leaves
\* behind depends on the bits pushed only, not on what the never written
\* buffer held.
C15_SameOutcomeForAnyRing ==
    Deframed /\ pre.fresh =>
        \A ring \in FreshBuffers :
            \E r \in { FirstCallOn(ring) } :
                /\ r.state = def.state
                /\ r.extracted_frame = ret
                /\ r.last_uw = def.last_uw
                /\ r.out.codec2_out = codec2_out

\* The pass of a call fed from a stream at which a copy of the frame ends
FrameEnd == (args.feed.d + 95) % 96

\* A call in which a copy of the frame of the stream ends
FrameEndsInCall ==
    /\ Deframed
    /\ \/ args.feed.src = "stream"
       \/ args.feed.src = "head" /\ args.feed.d = 0

\* C16: on a stream of uncorrupted copies of the assembled frame, the
\* deframer is synchronized after the last bit of every copy received
\* completely, so a deframer that is unsynchronized at some bit is
\* synchronized again by the last bit of the next copy.
C16_SyncByFrameEnd ==
    FrameEndsInCall =>
        /\ After(FrameEnd).state = ST_SYNC
        /\ Before(FrameEnd).state = ST_NOSYNC => FrameEnd \in ev.lock
        /\ \A i \in ev.drop : i # FrameEnd

C16_Witness ==
    /\ FrameEndsInCall
    /\ args.feed.src = "stream"
    /\ pre.state = ST_NOSYNC
    /\ pre.miss_cnt > 0
    /\ Before(FrameEnd).state = ST_NOSYNC
    /\ After(FrameEnd).state = ST_SYNC

\* C17 as claimed: when the bits before a copy of the frame cause no lock and
\* the copy's last bit locks the deframer, at any alignment d of the stream,
\* the payload and protocol bits returned are those assembled and the
\* side-channel bits returned are frame bits 90 and 91.
C17_AlignmentIndependence ==
    FrameEndsInCall /\ pre.state = ST_NOSYNC /\ ev.lock = {FrameEnd} /\ ev.check = {} =>
        /\ PayloadReturned
        /\ ProtocolReturned
        /\ vc_out = << bits_out[90], bits_out[91] >>

\* C18: after every bit the cursor is in 0..95 and one further round the
\* buffer; read from the cursor on, the buffer holds what it held when the
\* call began followed by the bits received since, the oldest first; last_uw
\* is in 0..95 and, while synchronized, is the number of bits received since
\* the lock or the last UW test; between calls the struct holds those values.
C18_StateRanges ==
    Deframed =>
        /\ \A i \in 0 .. 95 :
             /\ After(i).bitptr \in 0 .. 95
             /\ After(i).bitptr = (Before(i).bitptr + 1) % 96
             /\ \A p \in 0 .. 95 :
                  After(i).bits[(After(i).bitptr + p) % 96] =
                      IF p >= 95 - i
                      THEN args.bits_in[p - (95 - i)]
                      ELSE pre.bits[(pre.bitptr + i + 1 + p) % 96]
             /\ After(i).last_uw \in 0 .. 95
             /\ After(i).state = ST_SYNC =>
                  After(i).last_uw =
                      IF \E m \in ev.check \cup ev.lock : m <= i
                      THEN i - (CHOOSE m \in ev.check \cup ev.lock :
                                  /\ m <= i
                                  /\ \A n \in ev.check \cup ev.lock : n <= i => n <= m)
                      ELSE pre.last_uw + i + 1
        /\ def.bits = After(95).bits
        /\ def.bitptr = After(95).bitptr
        /\ def.last_uw = After(95).last_uw
        /\ def.state = After(95).state

C18_Witness ==
    /\ Deframed
    /\ pre.state = ST_SYNC
    /\ pre.last_uw \in 1 .. 95
    /\ Synchronized
    /\ def.last_uw = pre.last_uw
    /\ def.bitptr = 0
    /\ def.bits = args.bits_in
    /\ pre.bits # args.bits_in

\* The last pass of the last call that extracted
LastExtract == CHOOSE i \in ev.extract : \A j \in ev.extract : j <= i

\* Buffer element k places after the cursor, as the last extraction found it
RingAt(k) == After(LastExtract).bits[(After(LastExtract).bitptr + k) % 96]

\* C19 as claimed: a call returns 1 exactly when one of its bits extracted;
\* then the outputs are the fields the buffer held, relative to the cursor, at
\* the last extracting bit; a call that returns 0 leaves the output arrays as
\* they were.
C19_ResultOfCall ==
    Deframed =>
        /\ ret = 1 <=> ev.extract # {}
        /\ ret = 1 =>
             /\ \A b \in 0 .. 51 :
                  Bit(codec2_out, b) = RingAt(IF b < 24 THEN 16 + b ELSE 56 + (b - 24))
             /\ args.feed.want.proto =>
                  \A b \in 0 .. 19 :
                      Bit(proto_out, b) = RingAt(IF b < 12 THEN 4 + b ELSE 84 + (b - 12))
             /\ args.feed.want.vc => vc_out = << RingAt(90), RingAt(91) >>
        /\ ret = 0 =>
             /\ codec2_out = pre.out.codec2_out
             /\ proto_out = pre.out.proto_out
             /\ vc_out = pre.out.vc_out

====
